---- MODULE Spec2Model ----
(***************************************************************************)
(* Model of the Mandelbrot programs mandelbrot_seq.c and mandelbrot_pth.c. *)
(*                                                                         *)
(* Doubles are modelled by integers: every viewport that the model feeds   *)
(* to the programs has integer bounds whose extent is a multiple of the    *)
(* resolution, so that pixel_width, pixel_height, every plane point and    *)
(* every orbit value that is compared with the escape radius is a small    *)
(* integer, on which IEEE double arithmetic is exact.                      *)
(***************************************************************************)
EXTENDS Integers, Sequences, FiniteSets, TLC

VARIABLES
  args,          \* argv[1..argc-1], each argument a sequence of characters
  pc,            \* position of the main thread
  G,             \* the global variables of the program
  image_buffer,  \* image_buffer[k]: <<>> until stored to, then the three bytes
  i,             \* main's loop counter
  w,             \* the worker threads, indexed by thread id
  writes,        \* per buffer slot, the ids of the threads that stored to it
  rows,          \* per worker, the rows it has traversed, in order
  file,          \* output.ppm: <<>> until written, then header and pixel bytes
  nullSlots,     \* the slots k whose pointer image_buffer[k] is null
  nullStore,     \* a worker has attempted a store through a null pointer
  status,        \* exit status of the process: "running", "success", "failure"
  fail,          \* the failure met so far: "none", "buffer", "arg", "create"
  col,           \* state of the colour-mapping check
  esc            \* state of the escape-loop check

vars == <<args, pc, G, image_buffer, i, w, writes, rows, file, nullSlots,
          nullStore, status, fail, col, esc>>

(***************************************************************************)
(* Bounds of the model.                                                    *)
(***************************************************************************)
MaxRes     == 3   \* largest image_size
MaxThreads == 3   \* largest worker count given with -nt
MaxCoord   == 2   \* plane points of the escape check lie in -MaxCoord..MaxCoord
ExtraIter  == 1   \* the colour check covers 0..iteration_max+ExtraIter
MaxFail    == 1   \* most slot allocations that fail in one run

(***************************************************************************)
(* Program constants.                                                      *)
(***************************************************************************)
iteration_max         == 4095
escape_radius_squared == 4
DEFAULT_NUM_THREADS   == 4
DEFAULT_SCHEME        == 0
rgb_size              == 3
max_color_component_value == 255

Abs(x) == IF x < 0 THEN -x ELSE x

\* a store of an int into an unsigned char
UC(v) == v % 256

(***************************************************************************)
(* Colour mapping                                                          *)
(***************************************************************************)
\* first_color, second_color, third_color before the store (pthread variant)
scaled_colors_mut18(iteration) ==
  IF iteration >= iteration_max
  THEN <<0, 0, 0>>
  ELSE <<18 * ((iteration \div 256) % 16),
         18 * ((iteration \div 16) % 16),
         18 * (iteration % 16)>>

scaled_colors(iteration) ==
  IF iteration >= iteration_max
  THEN <<0, 0, 0>>
  ELSE <<17 * ((iteration \div 256) % 16),
         17 * ((iteration \div 16) % 16),
         17 * (iteration % 16)>>

\* the three bytes stored at image_buffer[k][0..2] (pthread variant)
rgb_triple_mut0(iteration, color_sch) ==
  LET k == scaled_colors(iteration)
      first_color  == k[1]
      second_color == k[2]
      third_color  == k[3]
  IN  IF color_sch = 0 \/ color_sch = 3
        THEN <<UC(first_color), UC(second_color), UC(third_color)>>
      ELSE IF color_sch = 1 THEN <<UC(second_color), UC(first_color), UC(third_color)>>
      ELSE IF color_sch = 2 THEN <<UC(first_color), UC(third_color), UC(second_color)>>
      ELSE IF color_sch = 4 THEN <<UC(third_color), UC(first_color), UC(second_color)>>
      ELSE <<UC(second_color), UC(third_color), UC(first_color)>>

rgb_triple(iteration, color_sch) ==
  LET k == scaled_colors(iteration)
      first_color  == k[1]
      second_color == k[2]
      third_color  == k[3]
  IN  IF color_sch = 0 THEN <<UC(third_color), UC(second_color), UC(first_color)>>
      ELSE IF color_sch = 1 THEN <<UC(second_color), UC(first_color), UC(third_color)>>
      ELSE IF color_sch = 2 THEN <<UC(first_color), UC(third_color), UC(second_color)>>
      ELSE IF color_sch = 3 THEN <<UC(first_color), UC(second_color), UC(third_color)>>
      ELSE IF color_sch = 4 THEN <<UC(third_color), UC(first_color), UC(second_color)>>
      ELSE <<UC(second_color), UC(third_color), UC(first_color)>>

\* the index (i_y_max * y) + x of pixel (x, y) (pthread variant)
slot_index_mut_flat(x, y, i_y_max) == y + x

slot_index(x, y, i_y_max) == (i_y_max * y) + x

\* update_rgb_buffer of mandelbrot_pth.c
update_rgb_buffer(buf, iteration, x, y, color_sch, i_y_max) ==
  [buf EXCEPT ![slot_index(x, y, i_y_max)] = rgb_triple(iteration, color_sch)]

\* the same three definitions for mandelbrot_seq.c
seq_scaled_colors(iteration) ==
  IF iteration >= iteration_max
  THEN <<0, 0, 0>>
  ELSE <<17 * ((iteration \div 256) % 16),
         17 * ((iteration \div 16) % 16),
         17 * (iteration % 16)>>

seq_rgb_triple(iteration, color_sch) ==
  LET k == seq_scaled_colors(iteration)
      first_color  == k[1]
      second_color == k[2]
      third_color  == k[3]
  IN  IF color_sch = 0 THEN <<UC(third_color), UC(second_color), UC(first_color)>>
      ELSE IF color_sch = 1 THEN <<UC(second_color), UC(first_color), UC(third_color)>>
      ELSE IF color_sch = 2 THEN <<UC(first_color), UC(third_color), UC(second_color)>>
      ELSE IF color_sch = 3 THEN <<UC(first_color), UC(second_color), UC(third_color)>>
      ELSE IF color_sch = 4 THEN <<UC(third_color), UC(first_color), UC(second_color)>>
      ELSE <<UC(second_color), UC(third_color), UC(first_color)>>

seq_slot_index(x, y, i_y_max) == (i_y_max * y) + x

seq_update_rgb_buffer(buf, iteration, x, y, color_sch, i_y_max) ==
  [buf EXCEPT ![seq_slot_index(x, y, i_y_max)] = seq_rgb_triple(iteration, color_sch)]

(***************************************************************************)
(* Escape-time loop                                                        *)
(***************************************************************************)
\* the loop variables on entry: z = 0, iteration = 0
loop_entry ==
  [z_x |-> 0, z_y |-> 0, z_x_squared |-> 0, z_y_squared |-> 0, iteration |-> 0]

\* the condition of the for loop (pthread variant)
loop_cond_mut_le(s) ==
  s.iteration < iteration_max
    /\ (s.z_x_squared + s.z_y_squared) <= escape_radius_squared

loop_cond(s) ==
  s.iteration < iteration_max
    /\ (s.z_x_squared + s.z_y_squared) < escape_radius_squared

\* one pass through the body and the increment (pthread variant)
loop_body(s, c_x, c_y) ==
  LET zy == 2 * s.z_x * s.z_y + c_y
      zx == s.z_x_squared - s.z_y_squared + c_x
  IN  [z_x |-> zx, z_y |-> zy,
       z_x_squared |-> zx * zx, z_y_squared |-> zy * zy,
       iteration |-> s.iteration + 1]

\* the loop run for at most n passes from s; n = iteration_max runs it to its exit
RECURSIVE run_loop(_, _, _, _)
run_loop(s, c_x, c_y, n) ==
  IF ~loop_cond(s) \/ n = 0 THEN s
  ELSE IF n = 1 THEN loop_body(s, c_x, c_y)
  ELSE run_loop(run_loop(s, c_x, c_y, n \div 2), c_x, c_y, n - (n \div 2))

\* the plane points of the viewports of the model
PlanePoints == ((-MaxCoord)..MaxRes) \X ((-MaxCoord)..(3 * MaxRes))

\* the value of iteration when the loop is left, per plane point (pthread
\* variant); @@ makes the table an explicit one, computed once
escape_table ==
  [p \in PlanePoints |-> run_loop(loop_entry, p[1], p[2], iteration_max).iteration]
    @@ [p \in {} |-> 0]

\* the value of iteration handed to update_rgb_buffer (pthread variant)
escape_iteration(c_x, c_y) == escape_table[<<c_x, c_y>>]

seq_loop_cond(s) ==
  s.iteration < iteration_max
    /\ (s.z_x_squared + s.z_y_squared) < escape_radius_squared

seq_loop_body(s, c_x, c_y) ==
  LET zy == 2 * s.z_x * s.z_y + c_y
      zx == s.z_x_squared - s.z_y_squared + c_x
  IN  [z_x |-> zx, z_y |-> zy,
       z_x_squared |-> zx * zx, z_y_squared |-> zy * zy,
       iteration |-> s.iteration + 1]

RECURSIVE seq_run_loop(_, _, _, _)
seq_run_loop(s, c_x, c_y, n) ==
  IF ~seq_loop_cond(s) \/ n = 0 THEN s
  ELSE IF n = 1 THEN seq_loop_body(s, c_x, c_y)
  ELSE seq_run_loop(seq_run_loop(s, c_x, c_y, n \div 2), c_x, c_y, n - (n \div 2))

seq_escape_table ==
  [p \in PlanePoints |->
     seq_run_loop(loop_entry, p[1], p[2], iteration_max).iteration]
    @@ [p \in {} |-> 0]

seq_escape_iteration(c_x, c_y) == seq_escape_table[<<c_x, c_y>>]

\* c_y of row i_y with the snap to the real axis; fabs(c_y) < pixel_height / 2
\* is compared as 2 * |c_y| < pixel_height
row_c_y_mut_nosnap(c_y_min, pixel_height, i_y) ==
  c_y_min + i_y * pixel_height

row_c_y(c_y_min, pixel_height, i_y) ==
  LET c_y == c_y_min + i_y * pixel_height
  IN  IF 2 * Abs(c_y) < pixel_height THEN 0 ELSE c_y

seq_row_c_y(c_y_min, pixel_height, i_y) ==
  LET c_y == c_y_min + i_y * pixel_height
  IN  IF 2 * Abs(c_y) < pixel_height THEN 0 ELSE c_y

(***************************************************************************)
(* Command line.  An argument is a sequence of characters.                 *)
(***************************************************************************)
DigitChars == <<"0", "1", "2", "3", "4", "5", "6", "7", "8", "9">>

IsDigit(ch) == \E d \in 1..10 : DigitChars[d] = ch

DigitVal(ch) == (CHOOSE d \in 1..10 : DigitChars[d] = ch) - 1

\* the decimal text of an integer, as the shell would pass it
RECURSIVE Dec(_)
Dec(n) ==
  IF n < 0 THEN <<"-">> \o Dec(-n)
  ELSE IF n < 10 THEN <<DigitChars[n + 1]>>
  ELSE Dec(n \div 10) \o <<DigitChars[(n % 10) + 1]>>

NT_FLAG == <<"-", "n", "t">>

\* strcmp(a, b) == 0
strcmp0(a, b) == a = b

\* the digits of str from position k on, accumulated onto acc
RECURSIVE scan_digits(_, _, _)
scan_digits(str, k, acc) ==
  IF k <= Len(str) /\ IsDigit(str[k])
  THEN scan_digits(str, k + 1, acc * 10 + DigitVal(str[k]))
  ELSE acc

\* sscanf(str, "%d", &v): the new value of v, which is old when nothing matches
sscanf_d(str, old) ==
  LET neg    == Len(str) >= 1 /\ str[1] = "-"
      signed == Len(str) >= 1 /\ str[1] \in {"-", "+"}
      start  == IF signed THEN 2 ELSE 1
      mag    == scan_digits(str, start, 0)
  IN  IF start <= Len(str) /\ IsDigit(str[start])
      THEN (IF neg THEN -mag ELSE mag)
      ELSE old

\* sscanf(str, "%lf", &v) on the integer literals the model passes
sscanf_lf(str, old) == sscanf_d(str, old)

\* the globals as the loader leaves them
G0 ==
  [c_x_min |-> 0, c_x_max |-> 0, c_y_min |-> 0, c_y_max |-> 0,
   pixel_width |-> 0, pixel_height |-> 0,
   GLOBAL_SCHEME |-> DEFAULT_SCHEME, image_size |-> 0,
   i_x_max |-> 0, i_y_max |-> 0, image_buffer_size |-> 0,
   NUM_THREADS |-> DEFAULT_NUM_THREADS, PLOT_IMAGE |-> FALSE]

argc == Len(args) + 1

\* init reads argv[argc], the terminating null pointer, as the thread count
init_reads_null(a) ==
  LET n == Len(a) + 1
  IN  /\ n >= 7
      /\ \/ strcmp0(a[6], NT_FLAG) /\ n = 7
         \/ ~strcmp0(a[6], NT_FLAG) /\ n = 8 /\ strcmp0(a[7], NT_FLAG)

\* scheme and thread count after the optional arguments; nullread tells
\* whether the sscanf of a null pointer stored nothing
init_optional_mut_pos(g, a, nullread) ==
  LET n == Len(a) + 1
  IN  IF n < 7 THEN g
      ELSE IF strcmp0(a[6], NT_FLAG)
        THEN (IF nullread THEN g
              ELSE [g EXCEPT !.NUM_THREADS = sscanf_d(a[7], g.NUM_THREADS)])
      ELSE LET g1 == [g EXCEPT !.GLOBAL_SCHEME = sscanf_d(a[6], g.GLOBAL_SCHEME)]
           IN  IF n > 7 /\ strcmp0(a[7], NT_FLAG)
               THEN (IF nullread THEN g1
                     ELSE [g1 EXCEPT !.NUM_THREADS = sscanf_d(a[8], g1.NUM_THREADS)])
               ELSE IF n > 8 /\ strcmp0(a[8], NT_FLAG)
               THEN (IF n = 9 THEN g1
                     ELSE [g1 EXCEPT !.NUM_THREADS = sscanf_d(a[9], g1.NUM_THREADS)])
               ELSE g1

init_optional(g, a, nullread) ==
  LET n == Len(a) + 1
  IN  IF n < 7 THEN g
      ELSE IF strcmp0(a[6], NT_FLAG)
        THEN (IF nullread THEN g
              ELSE [g EXCEPT !.NUM_THREADS = sscanf_d(a[7], g.NUM_THREADS)])
      ELSE LET g1 == [g EXCEPT !.GLOBAL_SCHEME = sscanf_d(a[6], g.GLOBAL_SCHEME)]
           IN  IF n > 7 /\ strcmp0(a[7], NT_FLAG)
               THEN (IF nullread THEN g1
                     ELSE [g1 EXCEPT !.NUM_THREADS = sscanf_d(a[8], g1.NUM_THREADS)])
               ELSE g1

\* the globals after the else branch of init; the two divisions are exact
\* on the viewports of the model
init_globals(g, a, nullread) ==
  LET g1 == [g EXCEPT !.c_x_min = sscanf_lf(a[1], g.c_x_min),
                      !.c_x_max = sscanf_lf(a[2], g.c_x_max),
                      !.c_y_min = sscanf_lf(a[3], g.c_y_min),
                      !.c_y_max = sscanf_lf(a[4], g.c_y_max),
                      !.image_size = sscanf_d(a[5], g.image_size)]
      g2 == init_optional(g1, a, nullread)
  IN  [g2 EXCEPT !.i_x_max = g2.image_size,
                 !.i_y_max = g2.image_size,
                 !.image_buffer_size = g2.image_size * g2.image_size,
                 !.pixel_width  = (g2.c_x_max - g2.c_x_min) \div g2.image_size,
                 !.pixel_height = (g2.c_y_max - g2.c_y_min) \div g2.image_size]

(***************************************************************************)
(* Sequential variant: compute_mandelbrot as a fold over rows and columns  *)
(***************************************************************************)
RECURSIVE seq_cols(_, _, _, _, _)
seq_cols(buf, g, i_y, c_y, i_x) ==
  IF i_x < g.i_x_max
  THEN LET c_x == g.c_x_min + i_x * g.pixel_width
           iteration == seq_escape_iteration(c_x, c_y)
       IN  seq_cols(seq_update_rgb_buffer(buf, iteration, i_x, i_y,
                                          g.GLOBAL_SCHEME, g.i_y_max),
                    g, i_y, c_y, i_x + 1)
  ELSE buf

RECURSIVE seq_rows(_, _, _)
seq_rows(buf, g, i_y) ==
  IF i_y < g.i_y_max
  THEN seq_rows(seq_cols(buf, g, i_y,
                         seq_row_c_y(g.c_y_min, g.pixel_height, i_y), 0),
                g, i_y + 1)
  ELSE buf

\* the buffer after allocate_image_buffer
fresh_buffer(g) == [k \in 0..(g.image_buffer_size - 1) |-> <<>>]

\* the buffer that main of mandelbrot_seq.c holds after compute_mandelbrot
compute_mandelbrot(g) == seq_rows(fresh_buffer(g), g, 0)

(***************************************************************************)
(* Pthread variant: main                                                   *)
(***************************************************************************)
Slots == DOMAIN image_buffer

Threads == DOMAIN w

idle_thread == [st |-> "none", pc |-> "row", id |-> 0, i_y |-> 0, i_x |-> 0, c_y |-> 0]

\* the process is running: neither exited nor killed
Alive == status = "running" /\ pc # "crashed"

\* what init leaves behind, and the thread array main declares after it
AfterInit(g) ==
  /\ G' = g
  /\ w' = [t \in 1..g.NUM_THREADS |-> idle_thread]
  /\ rows' = [t \in 1..g.NUM_THREADS |-> <<>>]
  /\ pc' = "alloc"
  /\ UNCHANGED <<args, image_buffer, i, writes, file, nullSlots, nullStore,
                 status, fail, col, esc>>

\* init with argc < 6: usage text and exit(0)
InitUsage ==
  /\ pc = "init" /\ Alive
  /\ argc < 6
  /\ pc' = "exited"
  /\ status' = "success"
  /\ UNCHANGED <<args, G, image_buffer, i, w, writes, rows, file, nullSlots,
                 nullStore, fail, col, esc>>

\* init with every argument it reads present
InitParse ==
  /\ pc = "init" /\ Alive
  /\ argc >= 6
  /\ ~init_reads_null(args)
  /\ AfterInit(init_globals(G, args, FALSE))

\* init hands the null pointer argv[argc] to sscanf: the process is killed,
\* or sscanf stores nothing
InitNullRead ==
  /\ pc = "init" /\ Alive
  /\ argc >= 6
  /\ init_reads_null(args)
  /\ \/ /\ pc' = "crashed"
        /\ UNCHANGED <<args, G, image_buffer, i, w, writes, rows, file,
                       nullSlots, nullStore, status, fail, col, esc>>
     \/ AfterInit(init_globals(G, args, TRUE))

\* allocate_image_buffer, every malloc succeeding
Allocate ==
  /\ pc = "alloc" /\ Alive
  /\ image_buffer' = fresh_buffer(G)
  /\ writes' = [k \in 0..(G.image_buffer_size - 1) |-> <<>>]
  /\ nullSlots' = {}
  /\ pc' = "create"
  /\ i' = 1
  /\ UNCHANGED <<args, G, w, rows, file, nullStore, status, fail, col, esc>>

\* allocate_image_buffer with the mallocs of the slots in S returning NULL:
\* the result is not tested and main goes on
AllocateFail ==
  /\ pc = "alloc" /\ Alive
  /\ \E S \in SUBSET (0..(G.image_buffer_size - 1)) :
       /\ S # {}
       /\ Cardinality(S) <= MaxFail
       /\ nullSlots' = S
  /\ image_buffer' = fresh_buffer(G)
  /\ writes' = [k \in 0..(G.image_buffer_size - 1) |-> <<>>]
  /\ fail' = "buffer"
  /\ pc' = "create"
  /\ i' = 1
  /\ UNCHANGED <<args, G, w, rows, file, nullStore, status, col, esc>>

\* allocate_image_buffer with the malloc of the pointer array returning NULL
\* and at least one slot to fill: the first store of the loop goes through a
\* null pointer; the process is killed, or main goes on without one valid slot
AllocateArrayFail ==
  /\ pc = "alloc" /\ Alive
  /\ G.image_buffer_size > 0
  /\ image_buffer' = fresh_buffer(G)
  /\ writes' = [k \in 0..(G.image_buffer_size - 1) |-> <<>>]
  /\ nullSlots' = 0..(G.image_buffer_size - 1)
  /\ fail' = "buffer"
  /\ \/ pc' = "crashed" /\ i' = i
     \/ pc' = "create" /\ i' = 1
  /\ UNCHANGED <<args, G, w, rows, file, nullStore, status, col, esc>>

\* the start row of the worker whose argument is st
first_row(st) == st - 1

\* creation loop, i <= NUM_THREADS: malloc of aux and pthread_create succeed
CreateThread ==
  /\ pc = "create" /\ Alive
  /\ i <= G.NUM_THREADS
  /\ w' = [w EXCEPT ![i] = [st |-> "run", pc |-> "row", id |-> i,
                            i_y |-> first_row(i), i_x |-> 0, c_y |-> 0]]
  /\ i' = i + 1
  /\ UNCHANGED <<args, pc, G, image_buffer, writes, rows, file, nullSlots,
                 nullStore, status, fail, col, esc>>

\* creation loop: malloc of aux returns NULL, exit(EXIT_FAILURE)
CreateArgFail ==
  /\ pc = "create" /\ Alive
  /\ i <= G.NUM_THREADS
  /\ fail' = "arg"
  /\ pc' = "exited"
  /\ status' = "failure"
  /\ UNCHANGED <<args, G, image_buffer, i, w, writes, rows, file, nullSlots,
                 nullStore, col, esc>>

\* creation loop: pthread_create fails, exit(EXIT_FAILURE)
CreateFail_mut_continue ==
  /\ pc = "create" /\ Alive
  /\ i <= G.NUM_THREADS
  /\ fail' = "create"
  /\ w' = [w EXCEPT ![i] = [idle_thread EXCEPT !.st = "done"]]
  /\ i' = i + 1
  /\ UNCHANGED <<args, pc, G, image_buffer, writes, rows, file, nullSlots,
                 nullStore, status, col, esc>>

CreateFail ==
  /\ pc = "create" /\ Alive
  /\ i <= G.NUM_THREADS
  /\ fail' = "create"
  /\ pc' = "exited"
  /\ status' = "failure"
  /\ UNCHANGED <<args, G, image_buffer, i, w, writes, rows, file, nullSlots,
                 nullStore, col, esc>>

\* creation loop left: i > NUM_THREADS
CreateDone_mut_early ==
  /\ pc = "create" /\ Alive
  /\ i >= G.NUM_THREADS
  /\ pc' = "join"
  /\ i' = 1
  /\ UNCHANGED <<args, G, image_buffer, w, writes, rows, file, nullSlots,
                 nullStore, status, fail, col, esc>>

CreateDone ==
  /\ pc = "create" /\ Alive
  /\ i > G.NUM_THREADS
  /\ pc' = "join"
  /\ i' = 1
  /\ UNCHANGED <<args, G, image_buffer, w, writes, rows, file, nullSlots,
                 nullStore, status, fail, col, esc>>

\* pthread_join(thread[i]) returns once worker i has returned
JoinThread_mut_nowait ==
  /\ pc = "join" /\ Alive
  /\ i <= G.NUM_THREADS
  /\ i' = i + 1
  /\ UNCHANGED <<args, pc, G, image_buffer, w, writes, rows, file, nullSlots,
                 nullStore, status, fail, col, esc>>

JoinThread ==
  /\ pc = "join" /\ Alive
  /\ i <= G.NUM_THREADS
  /\ w[i].st = "done"
  /\ i' = i + 1
  /\ UNCHANGED <<args, pc, G, image_buffer, w, writes, rows, file, nullSlots,
                 nullStore, status, fail, col, esc>>

\* join loop left: i > NUM_THREADS
JoinDone ==
  /\ pc = "join" /\ Alive
  /\ i > G.NUM_THREADS
  /\ pc' = "plot"
  /\ UNCHANGED <<args, G, image_buffer, i, w, writes, rows, file, nullSlots,
                 nullStore, status, fail, col, esc>>

\* the bytes write_to_file puts after the header: three per slot, in order
RECURSIVE pixel_bytes(_, _, _)
pixel_bytes(buf, k, n) ==
  IF k < n THEN buf[k] \o pixel_bytes(buf, k + 1, n) ELSE <<>>

\* write_to_file, reached when PLOT_IMAGE is set
WriteToFile ==
  /\ pc = "plot" /\ Alive
  /\ G.PLOT_IMAGE
  /\ file' = <<<<"P6", G.i_x_max, G.i_y_max, max_color_component_value>>,
               pixel_bytes(image_buffer, 0, G.image_buffer_size)>>
  /\ pc' = "ret"
  /\ UNCHANGED <<args, G, image_buffer, i, w, writes, rows, nullSlots,
                 nullStore, status, fail, col, esc>>

\* PLOT_IMAGE is 0: nothing is written
SkipPlot ==
  /\ pc = "plot" /\ Alive
  /\ ~G.PLOT_IMAGE
  /\ pc' = "ret"
  /\ UNCHANGED <<args, G, image_buffer, i, w, writes, rows, file, nullSlots,
                 nullStore, status, fail, col, esc>>

\* return 0 from main
Return ==
  /\ pc = "ret" /\ Alive
  /\ pc' = "exited"
  /\ status' = "success"
  /\ UNCHANGED <<args, G, image_buffer, i, w, writes, rows, file, nullSlots,
                 nullStore, fail, col, esc>>

(***************************************************************************)
(* Pthread variant: iterate_y                                              *)
(***************************************************************************)
\* the increment of the row loop
next_row_mut_one(i_y, num_threads) == i_y + 1

next_row(i_y, num_threads) == i_y + num_threads

\* row loop, i_y < i_y_max: c_y of the row, column loop entered
WorkerRow(t) ==
  /\ Alive
  /\ w[t].st = "run" /\ w[t].pc = "row"
  /\ w[t].i_y < G.i_y_max
  /\ w' = [w EXCEPT ![t].c_y = row_c_y(G.c_y_min, G.pixel_height, w[t].i_y),
                    ![t].i_x = 0,
                    ![t].pc = "col"]
  /\ rows' = [rows EXCEPT ![t] = Append(@, w[t].i_y)]
  /\ UNCHANGED <<args, pc, G, image_buffer, i, writes, file, nullSlots,
                 nullStore, status, fail, col, esc>>

\* column loop, i_x < i_x_max: one pixel computed and stored
WorkerPixel(t) ==
  /\ Alive
  /\ w[t].st = "run" /\ w[t].pc = "col"
  /\ w[t].i_x < G.i_x_max
  /\ slot_index(w[t].i_x, w[t].i_y, G.i_y_max) \notin nullSlots
  /\ LET c_x == G.c_x_min + w[t].i_x * G.pixel_width
         iteration == escape_iteration(c_x, w[t].c_y)
     IN  /\ image_buffer' = update_rgb_buffer(image_buffer, iteration, w[t].i_x,
                                              w[t].i_y, G.GLOBAL_SCHEME, G.i_y_max)
         /\ writes' = [writes EXCEPT
                         ![slot_index(w[t].i_x, w[t].i_y, G.i_y_max)] = Append(@, t)]
  /\ w' = [w EXCEPT ![t].i_x = @ + 1]
  /\ UNCHANGED <<args, pc, G, i, rows, file, nullSlots, nullStore, status,
                 fail, col, esc>>

\* column loop, i_x < i_x_max, the slot pointer null: the store goes through
\* a null pointer; the process is killed or the store is lost
WorkerNullStore(t) ==
  /\ Alive
  /\ w[t].st = "run" /\ w[t].pc = "col"
  /\ w[t].i_x < G.i_x_max
  /\ slot_index(w[t].i_x, w[t].i_y, G.i_y_max) \in nullSlots
  /\ nullStore' = TRUE
  /\ \/ /\ pc' = "crashed"
        /\ w' = w
     \/ /\ pc' = pc
        /\ w' = [w EXCEPT ![t].i_x = @ + 1]
  /\ UNCHANGED <<args, G, image_buffer, i, writes, rows, file, nullSlots,
                 status, fail, col, esc>>

\* column loop left: next row of the stripe
WorkerRowEnd(t) ==
  /\ Alive
  /\ w[t].st = "run" /\ w[t].pc = "col"
  /\ w[t].i_x >= G.i_x_max
  /\ w' = [w EXCEPT ![t].i_y = next_row(@, G.NUM_THREADS), ![t].pc = "row"]
  /\ UNCHANGED <<args, pc, G, image_buffer, i, writes, rows, file, nullSlots,
                 nullStore, status, fail, col, esc>>

\* row loop left: free(nt), return NULL
WorkerExit(t) ==
  /\ Alive
  /\ w[t].st = "run" /\ w[t].pc = "row"
  /\ w[t].i_y >= G.i_y_max
  /\ w' = [w EXCEPT ![t].st = "done"]
  /\ UNCHANGED <<args, pc, G, image_buffer, i, writes, rows, file, nullSlots,
                 nullStore, status, fail, col, esc>>

(***************************************************************************)
(* Colour mapping and escape loop run on their own                         *)
(***************************************************************************)
col_idle == [variant |-> "none", iteration |-> 0, color_sch |-> 0,
             buf |-> [k \in 0..0 |-> <<>>], done |-> FALSE]

esc_idle == [variant |-> "none", c_x |-> 0, c_y |-> 0, s |-> loop_entry, pc |-> "idle"]

Schemes == 0..5

\* update_rgb_buffer of mandelbrot_pth.c on a one-pixel image
ColorPth ==
  /\ col.variant = "pth" /\ ~col.done
  /\ col' = [col EXCEPT !.buf = update_rgb_buffer(col.buf, col.iteration, 0, 0,
                                                  col.color_sch, 1),
                        !.done = TRUE]
  /\ UNCHANGED <<args, pc, G, image_buffer, i, w, writes, rows, file, nullSlots,
                 nullStore, status, fail, esc>>

\* update_rgb_buffer of mandelbrot_seq.c on a one-pixel image
ColorSeq ==
  /\ col.variant = "seq" /\ ~col.done
  /\ col' = [col EXCEPT !.buf = seq_update_rgb_buffer(col.buf, col.iteration, 0, 0,
                                                      col.color_sch, 1),
                        !.done = TRUE]
  /\ UNCHANGED <<args, pc, G, image_buffer, i, w, writes, rows, file, nullSlots,
                 nullStore, status, fail, esc>>

\* one pass of the escape loop of iterate_y
EscLoopPth ==
  /\ esc.variant = "pth" /\ esc.pc = "loop"
  /\ loop_cond(esc.s)
  /\ esc' = [esc EXCEPT !.s = loop_body(esc.s, esc.c_x, esc.c_y)]
  /\ UNCHANGED <<args, pc, G, image_buffer, i, w, writes, rows, file, nullSlots,
                 nullStore, status, fail, col>>

\* the escape loop of iterate_y left
EscExitPth ==
  /\ esc.variant = "pth" /\ esc.pc = "loop"
  /\ ~loop_cond(esc.s)
  /\ esc' = [esc EXCEPT !.pc = "done"]
  /\ UNCHANGED <<args, pc, G, image_buffer, i, w, writes, rows, file, nullSlots,
                 nullStore, status, fail, col>>

\* one pass of the escape loop of compute_mandelbrot
EscLoopSeq ==
  /\ esc.variant = "seq" /\ esc.pc = "loop"
  /\ seq_loop_cond(esc.s)
  /\ esc' = [esc EXCEPT !.s = seq_loop_body(esc.s, esc.c_x, esc.c_y)]
  /\ UNCHANGED <<args, pc, G, image_buffer, i, w, writes, rows, file, nullSlots,
                 nullStore, status, fail, col>>

\* the escape loop of compute_mandelbrot left
EscExitSeq ==
  /\ esc.variant = "seq" /\ esc.pc = "loop"
  /\ ~seq_loop_cond(esc.s)
  /\ esc' = [esc EXCEPT !.pc = "done"]
  /\ UNCHANGED <<args, pc, G, image_buffer, i, w, writes, rows, file, nullSlots,
                 nullStore, status, fail, col>>

(***************************************************************************)
(* Command lines fed to the programs                                       *)
(***************************************************************************)
\* c_x_min c_x_max c_y_min c_y_max image_size for pixel sizes pw and ph
ViewArgs(xmin, ymin, pw, ph, size) ==
  <<Dec(xmin), Dec(xmin + size * pw), Dec(ymin), Dec(ymin + size * ph), Dec(size)>>

\* the optional arguments of the runs
OptRun ==
  {<<>>, <<Dec(4)>>}
    \cup {<<NT_FLAG, Dec(n)>> : n \in 1..MaxThreads}
    \cup {<<Dec(1), NT_FLAG, Dec(n)>> : n \in 1..MaxThreads}

\* the command lines of the runs: the rows hold the points -2, -1, 0 of the
\* real axis direction; with ph = 3 row 0 is snapped from c_y = -1 to 0
ArgsRun ==
  {ViewArgs(-2, -1, 1, ph, size) \o opt :
      ph \in {1, 3}, size \in 1..MaxRes, opt \in OptRun}
    \cup {<<Dec(0), Dec(1)>>}
    \cup {ViewArgs(-2, -1, 1, 1, 1) \o <<NT_FLAG>>}

\* the optional arguments of the parsing check
OptAll ==
  {<<>>, <<NT_FLAG>>, <<<<"a", "b">>>>, <<<<"7", "x">>>>}
    \cup {<<Dec(s)>> : s \in Schemes}
    \cup {<<NT_FLAG, Dec(n)>> : n \in {0, 12} \cup (1..MaxThreads)}
    \cup {<<Dec(s), NT_FLAG>> : s \in Schemes}
    \cup {<<Dec(s), NT_FLAG, Dec(n)>> : s \in Schemes, n \in 1..MaxThreads}
    \cup {<<NT_FLAG, Dec(n), Dec(s)>> : s \in {5}, n \in 1..MaxThreads}
    \cup {<<Dec(s), <<"x">>, NT_FLAG, Dec(n)>> : s \in {2}, n \in 1..MaxThreads}
    \cup {<<Dec(s), Dec(n), NT_FLAG, Dec(n)>> : s \in {3}, n \in 1..MaxThreads}
    \cup {<<<<"-", "n">>, Dec(n)>> : n \in 1..MaxThreads}

ArgsAll ==
  {ViewArgs(xmin, ymin, pw, ph, size) \o opt :
      xmin \in {-2, 0}, ymin \in {-1}, pw \in {1, 2}, ph \in {1, 3},
      size \in {1, MaxRes, 12}, opt \in OptAll}
    \cup {SubSeq(ViewArgs(-2, -1, 1, 1, 2), 1, n) : n \in 0..4}

(***************************************************************************)
(* Specifications                                                          *)
(***************************************************************************)
InitCommon ==
  /\ pc = "init"
  /\ image_buffer = [k \in {} |-> <<>>]
  /\ i = 0
  /\ w = [t \in {} |-> idle_thread]
  /\ writes = [k \in {} |-> <<>>]
  /\ rows = [t \in {} |-> <<>>]
  /\ file = <<>>
  /\ nullSlots = {}
  /\ nullStore = FALSE
  /\ status = "running"
  /\ fail = "none"

\* a run of mandelbrot_pth; PLOT_IMAGE is whatever the build was edited to
Init ==
  /\ InitCommon
  /\ args \in ArgsRun
  /\ \E plot \in BOOLEAN : G = [G0 EXCEPT !.PLOT_IMAGE = plot]
  /\ col = col_idle
  /\ esc = esc_idle

MainNext ==
  \/ InitUsage
  \/ InitParse
  \/ InitNullRead
  \/ Allocate
  \/ CreateThread
  \/ CreateArgFail
  \/ CreateFail
  \/ CreateDone
  \/ JoinThread
  \/ JoinDone
  \/ WriteToFile
  \/ SkipPlot
  \/ Return

Next ==
  \/ MainNext
  \/ \E t \in Threads : WorkerRow(t)
  \/ \E t \in Threads : WorkerPixel(t)
  \/ \E t \in Threads : WorkerRowEnd(t)
  \/ \E t \in Threads : WorkerExit(t)

\* runs in which every malloc of allocate_image_buffer succeeds
Spec == Init /\ [][Next]_vars

NextAlloc ==
  \/ Next
  \/ AllocateFail
  \/ AllocateArrayFail
  \/ \E t \in Threads : WorkerNullStore(t)

\* runs in which mallocs of allocate_image_buffer may fail
SpecAlloc == Init /\ [][NextAlloc]_vars

\* init on its own, over more command lines
InitArgs ==
  /\ InitCommon
  /\ args \in ArgsAll
  /\ G = G0
  /\ col = col_idle
  /\ esc = esc_idle

NextArgs == InitUsage \/ InitParse \/ InitNullRead

SpecInit == InitArgs /\ [][NextArgs]_vars

\* the colour mapping on its own
InitColor ==
  /\ InitCommon
  /\ args = <<>>
  /\ G = G0
  /\ \E v \in {"seq", "pth"}, n \in 0..(iteration_max + ExtraIter), sch \in Schemes :
       col = [col_idle EXCEPT !.variant = v, !.iteration = n, !.color_sch = sch]
  /\ esc = esc_idle

NextColor == ColorPth \/ ColorSeq

SpecColor == InitColor /\ [][NextColor]_vars

\* the escape loop on its own
InitEscape ==
  /\ InitCommon
  /\ args = <<>>
  /\ G = G0
  /\ col = col_idle
  /\ \E v \in {"seq", "pth"}, x \in (-MaxCoord)..MaxCoord, y \in (-MaxCoord)..MaxCoord :
       esc = [esc_idle EXCEPT !.variant = v, !.c_x = x, !.c_y = y, !.pc = "loop"]

NextEscape == EscLoopPth \/ EscExitPth \/ EscLoopSeq \/ EscExitSeq

SpecEscape == InitEscape /\ [][NextEscape]_vars

(***************************************************************************)
(* Properties                                                              *)
(***************************************************************************)
\* main has left the join loop of a run that parsed its arguments
Joined ==
  \/ pc \in {"plot", "ret"}
  \/ pc = "exited" /\ status = "success" /\ argc >= 6

\* the rows below resolution that the round-robin stripe gives worker t
StripeRows(t) == {r \in 0..(G.i_y_max - 1) : r % G.NUM_THREADS = t - 1}

StrictlyIncreasing(q) == \A j \in 1..(Len(q) - 1) : q[j] < q[j + 1]

SeqRange(q) == {q[j] : j \in 1..Len(q)}

\* C1: for resolution > 0 and T >= 1 workers, worker t traverses rows of its
\* stripe {t-1, t-1+T, ...} only, each once and in order, all of them by the
\* time it returns; once every worker has returned each row of
\* [0, resolution) has been traversed by exactly one worker, exactly once.
C1_RowPartition ==
  (pc \notin {"init", "crashed"} /\ argc >= 6) =>
    /\ \A t \in Threads :
         /\ StrictlyIncreasing(rows[t])
         /\ SeqRange(rows[t]) \subseteq StripeRows(t)
         /\ w[t].st = "done" => SeqRange(rows[t]) = StripeRows(t)
    /\ (\A t \in Threads : w[t].st = "done") =>
         \A r \in 0..(G.i_y_max - 1) :
           /\ Cardinality({t \in Threads : r \in SeqRange(rows[t])}) = 1
           /\ \A t \in Threads :
                Cardinality({j \in 1..Len(rows[t]) : rows[t][j] = r}) <= 1

\* two workers share three rows: worker 1 took rows 0 and 2, worker 2 row 1
C1_Witness ==
  /\ Joined
  /\ G.NUM_THREADS = 2 /\ G.i_y_max = 3
  /\ rows[1] = <<0, 2>> /\ rows[2] = <<1>>

\* the owner of the row of slot k
RowOwner(k) == ((k \div G.i_y_max) % G.NUM_THREADS) + 1

\* C2: in every interleaving each buffer slot is stored to at most once, and
\* only by the worker that owns its row; when main leaves the join loop every
\* slot has been stored to exactly once; the buffer is read (by
\* write_to_file) only after that.
C2_WriteOnce ==
  /\ \A k \in Slots :
       /\ Len(writes[k]) <= 1
       /\ \A j \in 1..Len(writes[k]) : writes[k][j] = RowOwner(k)
  /\ Joined => \A k \in Slots : Len(writes[k]) = 1
  /\ file # <<>> => \A k \in Slots : Len(writes[k]) = 1

\* workers 1 and 2 are both running and each has stored to a slot
C2_Witness ==
  /\ Cardinality(Threads) >= 2
  /\ w[1].st = "run" /\ w[2].st = "run"
  /\ \E k1, k2 \in Slots : writes[k1] = <<1>> /\ writes[k2] = <<2>>

\* what the sequential program is given: viewport, resolution, colour scheme
SeqGlobals(g) ==
  [c_x_min |-> g.c_x_min, c_y_min |-> g.c_y_min,
   pixel_width |-> g.pixel_width, pixel_height |-> g.pixel_height,
   i_x_max |-> g.i_x_max, i_y_max |-> g.i_y_max,
   image_buffer_size |-> g.image_buffer_size,
   GLOBAL_SCHEME |-> g.GLOBAL_SCHEME]

\* C3: when main of the pthread variant has joined its workers, the buffer
\* equals, slot for slot, the buffer compute_mandelbrot of the sequential
\* variant produces for the same viewport, resolution and colour scheme,
\* whatever the worker count and the interleaving.
C3_SameAsSequential ==
  Joined => image_buffer = compute_mandelbrot(SeqGlobals(G))

\* three workers have filled a 3x3 image whose row 0 was snapped to the real
\* axis; it has pixels inside and outside the set
C3_Witness ==
  /\ Joined
  /\ G.NUM_THREADS = 3 /\ G.i_y_max = 3 /\ G.pixel_height = 3
  /\ \E k1, k2 \in Slots :
       image_buffer[k1] = <<0, 0, 0>> /\ image_buffer[k2] # <<0, 0, 0>>

\* C4: main is at or past output serialization, or has returned, only when
\* every worker has returned; the file holds exactly the bytes of a buffer
\* every slot of which has been stored to.
C4_JoinBeforeOutput ==
  /\ (Joined \/ file # <<>>) => \A t \in Threads : w[t].st = "done"
  /\ file # <<>> =>
       /\ \A k \in Slots : Len(image_buffer[k]) = rgb_size
       /\ Len(file[2]) = rgb_size * G.image_buffer_size
       /\ \A k \in Slots : \A c \in 1..rgb_size :
            file[2][rgb_size * k + c] = image_buffer[k][c]

\* the file has been written in a run with several workers
C4_Witness ==
  /\ file # <<>>
  /\ G.NUM_THREADS >= 2 /\ G.i_y_max >= 2
  /\ pc = "exited"

\* the nibbles of n at bits 11..8, 7..4 and 3..0
Nibbles(n) == <<(n \div 256) % 16, (n \div 16) % 16, n % 16>>

\* (a, b, c) of the colour mapper
BaseChannels(n) ==
  IF n >= 4095 THEN <<0, 0, 0>>
  ELSE <<17 * Nibbles(n)[1], 17 * Nibbles(n)[2], 17 * Nibbles(n)[3]>>

\* the triple of scheme sch as the claim's table gives it
ClaimedTable(sch, t) ==
  CASE sch = 0 -> <<t[1], t[2], t[3]>>
    [] sch = 1 -> <<t[2], t[1], t[3]>>
    [] sch = 2 -> <<t[1], t[3], t[2]>>
    [] sch = 3 -> <<t[1], t[2], t[3]>>
    [] sch = 4 -> <<t[3], t[1], t[2]>>
    [] sch = 5 -> <<t[2], t[3], t[1]>>

\* the same table with the row of scheme 0 as the code has it
AmendedTable(sch, t) ==
  IF sch = 0 THEN <<t[3], t[2], t[1]>> ELSE ClaimedTable(sch, t)

Perms3 == {<<1, 2, 3>>, <<1, 3, 2>>, <<2, 1, 3>>, <<2, 3, 1>>, <<3, 1, 2>>, <<3, 2, 1>>}

\* C6: for every scheme, n >= iteration_max stores three zeros; otherwise
\* the stored bytes are, in some order, 17 times the three nibbles of n, so
\* that each lies in {0, 17, ..., 255} and nothing is lost in the byte.
C6_ChannelRange ==
  col.done =>
    IF col.iteration >= 4095
    THEN col.buf[0] = <<0, 0, 0>>
    ELSE /\ \E q \in Perms3 : \A j \in 1..3 :
              col.buf[0][j] = 17 * Nibbles(col.iteration)[q[j]]
         /\ \A j \in 1..3 : col.buf[0][j] \in {17 * v : v \in 0..15}

\* n = 0xFFE, one below the cap: channels 255, 255 and 238
C6_Witness ==
  /\ col.done
  /\ col.iteration = 4094
  /\ \E j \in 1..3 : col.buf[0][j] = 255
  /\ \E j \in 1..3 : col.buf[0][j] = 238

\* zx^2 + zy^2 of the escape check
EscNorm == esc.s.z_x_squared + esc.s.z_y_squared

\* the point is outside the escape radius: its first iterate already escapes
EscapesImmediately == (esc.c_x * esc.c_x) + (esc.c_y * esc.c_y) >= 4

\* C7 as claimed: the count returned lies in [0, iteration_max] and is 0 for
\* a point that escapes immediately, iteration_max for (0,0), at most 1 for
\* (2,2).
C7_Original ==
  esc.pc = "done" =>
    /\ esc.s.iteration \in 0..4095
    /\ EscapesImmediately => esc.s.iteration = 0
    /\ (esc.c_x = 0 /\ esc.c_y = 0) => esc.s.iteration = 4095
    /\ (esc.c_x = 2 /\ esc.c_y = 2) => esc.s.iteration <= 1

\* C7 amended: the loop goes on only while the count is below iteration_max
\* and zx^2 + zy^2 < 4, each pass adding one to the count, and stops at the
\* first check that fails; the count returned lies in [1, iteration_max]:
\* 1 for a point that escapes immediately (0 is never returned),
\* iteration_max if no check saw zx^2 + zy^2 >= 4; (0,0) returns
\* iteration_max and (2,2) returns 1.
C7_EscapeLoop ==
  /\ [](esc.pc = "done" =>
          /\ esc.s.iteration \in 1..4095
          /\ (esc.s.iteration = 4095 \/ EscNorm >= 4)
          /\ EscapesImmediately => esc.s.iteration = 1
          /\ (esc.c_x = 0 /\ esc.c_y = 0) => esc.s.iteration = 4095
          /\ (esc.c_x = 2 /\ esc.c_y = 2) => esc.s.iteration = 1)
  /\ [][esc.pc = "loop" =>
          IF esc.s.iteration < 4095 /\ EscNorm < 4
          THEN esc'.pc = "loop" /\ esc'.s.iteration = esc.s.iteration + 1
          ELSE esc'.pc = "done" /\ esc'.s = esc.s]_vars

\* the loop has been left for the point (-2, 0), whose first iterate has
\* zx^2 + zy^2 = 4 exactly
C7_Witness ==
  /\ esc.pc = "done"
  /\ esc.c_x = -2 /\ esc.c_y = 0
  /\ EscNorm = 4
  /\ esc.s.iteration = 1

\* C8: after a failed allocation, of the pixel buffer or of a thread
\* argument, the run is aborted: from then on no worker enters a row and no
\* store into the buffer is made or attempted.
C8_AllocFailureFatal ==
  [][(fail = "buffer" \/ fail = "arg") =>
       (rows' = rows /\ writes' = writes /\ nullStore' = nullStore)]_vars

\* C9: once the creation of a worker has failed the process has exited with
\* a failure status and output.ppm does not exist, whatever the workers
\* started before have done.
C9_CreateFailureFatal ==
  fail = "create" =>
    /\ pc = "exited"
    /\ status = "failure"
    /\ file = <<>>

\* the creation of worker 3 failed after worker 1 had stored a pixel and
\* while worker 2 was running
C9_Witness ==
  /\ fail = "create"
  /\ i = 3
  /\ w[2].st = "run"
  /\ \E k \in Slots : writes[k] = <<1>>

\* the value an argument written as the decimal text of v in -9..99 denotes
IsDec(str, v) == v \in -9..99 /\ str = Dec(v)

ArgsLive == {a \in ArgsRun : Len(a) >= 5 /\ ~init_reads_null(a)}

InitLive ==
  /\ InitCommon
  /\ args \in ArgsLive
  /\ \E plot \in BOOLEAN : G = [G0 EXCEPT !.PLOT_IMAGE = plot]
  /\ col = col_idle
  /\ esc = esc_idle

\* the steps of main when malloc and pthread_create succeed
MainLive ==
  \/ InitParse
  \/ Allocate
  \/ CreateThread
  \/ CreateDone
  \/ JoinThread
  \/ JoinDone
  \/ WriteToFile
  \/ SkipPlot
  \/ Return

\* the steps of worker t
WorkerStep(t) ==
  /\ t \in Threads
  /\ \/ WorkerRow(t)
     \/ WorkerPixel(t)
     \/ WorkerRowEnd(t)
     \/ WorkerExit(t)

NextLive ==
  \/ MainLive
  \/ \E t \in Threads : WorkerRow(t)
  \/ \E t \in Threads : WorkerPixel(t)
  \/ \E t \in Threads : WorkerRowEnd(t)
  \/ \E t \in Threads : WorkerExit(t)

\* the thread ids a run can have
ThreadIds ==
  1..(IF MaxThreads > DEFAULT_NUM_THREADS THEN MaxThreads ELSE DEFAULT_NUM_THREADS)

\* the scheduler lets no runnable thread wait forever
Fairness ==
  /\ WF_vars(MainLive)
  /\ \A t \in ThreadIds : WF_vars(WorkerStep(t))

SpecLive == InitLive /\ [][NextLive]_vars /\ Fairness

\* every slot of the resolution^2 slots has been stored to
AllWritten ==
  /\ Cardinality(Slots) = G.i_x_max * G.i_y_max
  /\ \A k \in Slots : Len(writes[k]) = 1 /\ Len(image_buffer[k]) = 3

\* C11: with resolution > 0, T >= 1 workers, no allocation or
\* thread-creation failure and fair scheduling, every run completes: each
\* worker of the run eventually returns, main eventually leaves the join
\* loop and returns, and whenever main has left the join loop all
\* resolution^2 slots have been stored to.
C11_RunCompletes ==
  /\ <>(/\ pc = "exited" /\ status = "success"
        /\ G.i_y_max > 0 /\ G.NUM_THREADS >= 1
        /\ Threads = 1..G.NUM_THREADS
        /\ \A t \in Threads : w[t].st = "done"
        /\ AllWritten)
  /\ [](pc = "plot" => (AllWritten /\ \A t \in Threads : w[t].st = "done"))

\* main has just left the join loop of a run of two workers on a 3x3 image
C11_Witness ==
  /\ pc = "plot"
  /\ G.NUM_THREADS = 2 /\ G.i_y_max = 3
  /\ AllWritten
  /\ w[1].st = "done" /\ w[2].st = "done"

====
